---------------------------- MODULE Spec2Model ----------------------------
(***************************************************************************)
(* Model of the Myers-vs-Histogram diff comparison pipeline:               *)
(*   simple_analysis.py  get_diff, classify_file_type, main                *)
(*   summary.py          display_summary                                   *)
(*   visualization.py    create_final_clear_visualization                  *)
(*                                                                         *)
(* Text values (paths, commit messages) are sequences of one-character     *)
(* strings, so that slicing, lower-casing, extension splitting and         *)
(* substring search are computed as Python computes them.  Diff texts are  *)
(* only ever compared for equality and are kept as strings.                *)
(***************************************************************************)
EXTENDS Integers, Sequences, FiniteSets, TLC

VARIABLES
    pc,             \* position of main(): idle, repo_loop, commit_loop, file_loop, save, summary, done, crashed
    error,          \* the exception that ended main(), "none" while there is none
    repo_idx,       \* index into repositories of the repository being analysed
    ncommits,       \* len(commits) after the [:1000] slice, for the current repository
    commit_idx,     \* index of the current commit in commits
    commit,         \* the current commit object
    file_idx,       \* index of the current file in commit.modified_files
    file,           \* the current modified file
    diff_myers,     \* local of main(): result of get_diff(..., "myers")
    diff_histogram, \* local of main(): result of get_diff(..., "histogram")
    rows,           \* the list of records main() accumulates
    dataset,        \* dataset.csv on disk
    console,        \* the numbers of main()'s console summary
    summary,        \* what display_summary computed on its last run
    figure,         \* what create_final_clear_visualization computed on its last run
    commitsLeft,    \* commits the history source may still yield (model bound)
    filesLeft,      \* modified files the history source may still yield (model bound)
    file_path,      \* argument of a stand-alone classify_file_type call
    file_type       \* its result

vars == <<pc, error, repo_idx, ncommits, commit_idx, commit, file_idx, file,
          diff_myers, diff_histogram, rows, dataset, console, summary, figure,
          commitsLeft, filesLeft, file_path, file_type>>

-----------------------------------------------------------------------------
(* Bounds of the model *)

\* commits the history source yields over one run of main()
MaxCommits == 2
\* modified files the history source yields over one run of main()
MaxFiles == 2
\* how many commits the long history exceeds the commit cap by
CapExcess == 1
\* directory components in front of a classified path
MaxDepth == 1

(* Program constants *)

\* commits = commits[:1000]
CommitCap == 1000
\* commit.msg[:100] ... len(commit.msg) > 100
MsgLimit == 100
\* if total >= 10:  (file types charted)
MinSample == 10

-----------------------------------------------------------------------------
(* Python values *)

\* None, where a diff text (a string) is expected
None == "None"
\* None, where a sequence (a path, a commit hash) is expected
NonePath == <<"None">>
\* NaN, what read_csv makes of an empty field
NaN == "NaN"
NaNSeq == <<"NaN">>

\* truthiness of an optional str: None and "" are falsy
Truthy(s) == s # NonePath /\ s # <<>>

\* x or y
Or(x, y) == IF Truthy(x) THEN x ELSE y

Min(a, b) == IF a < b THEN a ELSE b

\* str.lower() on the characters the model uses
LowerMap == [c \in {"P", "Y", "M", "D", "T"} |->
               CASE c = "P" -> "p" [] c = "Y" -> "y" [] c = "M" -> "m"
                 [] c = "D" -> "d" [] c = "T" -> "t"]

lower(s) == [i \in 1..Len(s) |-> IF s[i] \in DOMAIN LowerMap THEN LowerMap[s[i]] ELSE s[i]]

\* str.rfind(ch), 1-based; 0 when ch does not occur
rfind(s, ch) ==
    IF \E i \in 1..Len(s) : s[i] = ch
    THEN CHOOSE i \in 1..Len(s) : s[i] = ch /\ \A j \in (i+1)..Len(s) : s[j] # ch
    ELSE 0

\* os.path.splitext(p): the extension starts at the last dot of the last
\* path component, unless only dots precede it in that component
splitext(p) ==
    LET sepIndex == rfind(p, "/")
        dotIndex == rfind(p, ".")
    IN IF dotIndex > sepIndex /\ \E k \in (sepIndex+1)..(dotIndex-1) : p[k] # "."
       THEN <<SubSeq(p, 1, dotIndex - 1), SubSeq(p, dotIndex, Len(p))>>
       ELSE <<p, <<>> >>

\* sub in s
Contains(s, sub) ==
    \E i \in 1..(Len(s) - Len(sub) + 1) : SubSeq(s, i, i + Len(sub) - 1) = sub

-----------------------------------------------------------------------------
(* classify_file_type *)

SourceExts == { <<".","p","y">>, <<".","j","s">>, <<".","c">>, <<".","c","p","p">>,
                <<".","j","a","v","a">>, <<".","g","o">>, <<".","r","s">>,
                <<".","p","h","p">> }
DocExts    == { <<".","m","d">>, <<".","t","x","t">>, <<".","r","s","t">>,
                <<".","a","d","o","c">> }
ConfigExts == { <<".","j","s","o","n">>, <<".","y","m","l">>, <<".","y","a","m","l">>,
                <<".","x","m","l">>, <<".","t","o","m","l">>, <<".","i","n","i">>,
                <<".","c","f","g">> }
WebExts    == { <<".","h","t","m","l">>, <<".","c","s","s">>, <<".","s","c","s","s">> }
TestExts   == { <<"t","e","s","t",".","p","y">>, <<"_","t","e","s","t",".","p","y">> }
TestWord   == <<"t","e","s","t">>

\* the variant that looks for test files before it looks at the extension
classify_test_first(path) ==
    IF ~Truthy(path) THEN "Unknown"
    ELSE LET ext == lower(splitext(path)[2])
         IN IF ext \in TestExts \/ Contains(path, TestWord) THEN "Test"
            ELSE IF ext \in SourceExts THEN "Source"
            ELSE IF ext \in DocExts THEN "Documentation"
            ELSE IF ext \in ConfigExts THEN "Config"
            ELSE IF ext \in WebExts THEN "Web"
            ELSE "Other"

\* the variant whose last branch never yields Test
classify_no_test(path) ==
    IF ~Truthy(path) THEN "Unknown"
    ELSE LET ext == lower(splitext(path)[2])
         IN IF ext \in SourceExts THEN "Source"
            ELSE IF ext \in DocExts THEN "Documentation"
            ELSE IF ext \in ConfigExts THEN "Config"
            ELSE IF ext \in WebExts THEN "Web"
            ELSE "Other"

classify_file_type(path) ==
    IF ~Truthy(path) THEN "Unknown"
    ELSE LET ext == lower(splitext(path)[2])
         IN IF ext \in SourceExts THEN "Source"
            ELSE IF ext \in DocExts THEN "Documentation"
            ELSE IF ext \in ConfigExts THEN "Config"
            ELSE IF ext \in WebExts THEN "Web"
            ELSE IF ext \in TestExts \/ Contains(path, TestWord) THEN "Test"
            ELSE "Other"

-----------------------------------------------------------------------------
(* get_diff *)

\* What running `git diff` did: exited 0 with output text, exited non-zero
\* (CalledProcessError), or could not be started at all (OSError).
ToolOk(text) == [kind |-> "ok", text |-> text]
ToolNonZero  == [kind |-> "nonzero", text |-> None]
ToolCannotRun == [kind |-> "oserror", text |-> None]

Returned(v) == [raised |-> FALSE, value |-> v]
Raised(e)   == [raised |-> TRUE, value |-> e]

\* get_diff(repo_dir, parent, child, path, algorithm); tool is what the
\* subprocess it starts does
get_diff(parent, path, tool) ==
    IF ~Truthy(parent) \/ ~Truthy(path) THEN Returned(None)
    ELSE CASE tool.kind = "ok"      -> Returned(tool.text)
           [] tool.kind = "nonzero" -> Returned(None)
           [] tool.kind = "oserror" -> Raised("OSError")

-----------------------------------------------------------------------------
(* The inputs of main(): configuration and what the history source yields *)

repositories == <<"fastapi", "nginx", "openhands">>

\* a commit message of n characters
Msg(n) == [i \in 1..n |-> <<"f", "i", "x", " ">>[((i - 1) % 4) + 1]]

\* messages at the slice limit and just over it
Messages == { Msg(MsgLimit), Msg(MsgLimit + 1) }

\* the hash of the commit at position ci of repository ri: distinct commits
\* have distinct hashes
HashOf(ri, ci) == <<ri, ci>>

\* parents of a commit: none (a root commit) or one
ParentLists(ri, ci) == { <<>>, <<HashOf(ri, ci - 1)>> }

P_readme   == <<"R","E","A","D","M","E",".","m","d">>
P_test_foo == <<"t","e","s","t","_","f","o","o",".","p","y">>
P_notes    == <<"n","o","t","e","s",".","t","x","t">>

\* a modified file: neither path, a deleted file, a renamed file
ModifiedFiles ==
    { [old_path |-> NonePath, new_path |-> NonePath],
      [old_path |-> P_readme, new_path |-> NonePath],
      [old_path |-> P_notes,  new_path |-> P_test_foo] }

\* what the myers and the histogram subprocess may do: the diff may be the
\* empty text
MyersOutcomes     == {ToolOk("+added line"), ToolNonZero, ToolCannotRun}
HistogramOutcomes == {ToolOk("+added line"), ToolOk(""), ToolNonZero, ToolCannotRun}

\* the commits the history source may yield at the current position;
\* nfiles is len(commit.modified_files)
Commits ==
    { [hash |-> HashOf(repo_idx, commit_idx), parents |-> ps, msg |-> m, nfiles |-> k] :
        ps \in ParentLists(repo_idx, commit_idx), m \in Messages, k \in 0..filesLeft }

\* the lengths of the history of one repository
HistoryLens == 0..commitsLeft

NotRun == [status |-> "not_run"]

NoCommit == [hash |-> NonePath, parents |-> <<>>, msg |-> <<>>, nfiles |-> 0]
NoFile   == [old_path |-> NonePath, new_path |-> NonePath]

-----------------------------------------------------------------------------
(* main(): the traversal *)

\* the slice that keeps every commit
SliceAll(n) == n

\* len(commits[:1000]) for a list of n commits
Slice(n) == Min(n, CommitCap)

\* parents[0] if parents else None
FirstParent(parents) == IF parents # <<>> THEN parents[1] ELSE NonePath

\* file.new_path or file.old_path
EffectivePath(f) == Or(f.new_path, f.old_path)

\* the variant with the two answers exchanged
DiscrepancySwapped(dm, dh) == IF dm # dh THEN "No" ELSE "Yes"

\* "Yes" if diff_myers != diff_histogram else "No"
Discrepancy(dm, dh) == IF dm # dh THEN "Yes" ELSE "No"

\* the variant that cuts the message without marking it
TruncateBare(msg) == IF Len(msg) > MsgLimit THEN SubSeq(msg, 1, MsgLimit) ELSE msg

\* commit.msg[:100] + "..." if len(commit.msg) > 100 else commit.msg
Truncate(msg) ==
    IF Len(msg) > MsgLimit THEN SubSeq(msg, 1, MsgLimit) \o <<".", ".", ".">> ELSE msg

\* the dict appended to rows
Record(repo_name, f, c, parent, path, dm, dh) ==
    [ repository        |-> repo_name,
      old_file_path     |-> f.old_path,
      new_file_path     |-> f.new_path,
      commit_sha        |-> c.hash,
      parent_commit_sha |-> parent,
      commit_message    |-> Truncate(c.msg),
      file_type         |-> classify_file_type(path),
      file_extension    |-> IF Truthy(path) THEN lower(splitext(path)[2]) ELSE <<>>,
      diff_myers        |-> dm,
      diff_histogram    |-> dh,
      discrepancy       |-> Discrepancy(dm, dh) ]

\* the variant that also keeps files whose diff could not be computed
KeepRecordAlways(dm, dh) == TRUE

\* not (diff_myers is None or diff_histogram is None)
KeepRecord(dm, dh) == ~(dm = None \/ dh = None)

\* An exception e leaves main(): the process ends, and the record list and
\* every other local of main() is lost with it.
Crash(e) ==
    /\ pc' = "crashed"
    /\ error' = e
    /\ repo_idx' = 1
    /\ ncommits' = 0
    /\ commit_idx' = 1
    /\ commit' = NoCommit
    /\ file_idx' = 1
    /\ file' = NoFile
    /\ diff_myers' = None
    /\ diff_histogram' = None
    /\ rows' = <<>>
    /\ commitsLeft' = 0
    /\ filesLeft' = 0

\* main() is called: rows = [].  The stages run in the order of the pipeline:
\* a report made before the dataset exists is not followed by a run of main().
StartMain ==
    /\ pc = "idle"
    /\ summary = NotRun /\ figure = NotRun
    /\ pc' = "repo_loop"
    /\ repo_idx' = 1
    /\ rows' = <<>>
    /\ UNCHANGED <<error, ncommits, commit_idx, commit, file_idx, file, diff_myers,
                   diff_histogram, dataset, console, summary, figure,
                   commitsLeft, filesLeft, file_path, file_type>>

\* for repo_name, repo_path in repositories: the existence check and the
\* listing of the commits; present are the answers os.path.exists may give,
\* lens the history lengths the source may have.
\* After the last repository no history is read any more.
NextRepo(present, lens) ==
    /\ pc = "repo_loop"
    /\ IF repo_idx > Len(repositories)
       THEN /\ pc' = "save"
            /\ commitsLeft' = 0
            /\ filesLeft' = 0
            /\ UNCHANGED <<repo_idx, ncommits, commit_idx>>
       ELSE \E exists \in present, n \in lens :
              IF ~exists
              THEN /\ repo_idx' = repo_idx + 1
                   /\ UNCHANGED <<pc, ncommits, commit_idx, commitsLeft, filesLeft>>
              ELSE /\ ncommits' = Slice(n)
                   /\ commitsLeft' = commitsLeft - n
                   /\ commit_idx' = 1
                   /\ pc' = "commit_loop"
                   /\ UNCHANGED <<repo_idx, filesLeft>>
    /\ UNCHANGED <<error, commit, file_idx, file, diff_myers, diff_histogram, rows,
                   dataset, console, summary, figure, file_path, file_type>>

\* for commit in commits: root commits are skipped; cs are the commits the
\* source may yield at the current position.  When a loop is left its
\* iterator is gone and its loop variables are dead: they return to their
\* initial values.
NextCommit(cs) ==
    /\ pc = "commit_loop"
    /\ IF commit_idx > ncommits
       THEN /\ repo_idx' = repo_idx + 1
            /\ pc' = "repo_loop"
            /\ commit_idx' = 1
            /\ ncommits' = 0
            /\ commit' = NoCommit
            /\ UNCHANGED <<file_idx, filesLeft>>
       ELSE \E c \in cs :
              /\ commit' = c
              /\ filesLeft' = filesLeft - c.nfiles
              /\ IF ~Truthy(FirstParent(c.parents))
                 THEN /\ commit_idx' = commit_idx + 1
                      /\ UNCHANGED <<pc, file_idx>>
                 ELSE /\ file_idx' = 1
                      /\ pc' = "file_loop"
                      /\ UNCHANGED commit_idx
              /\ UNCHANGED <<repo_idx, ncommits>>
    /\ UNCHANGED <<error, file, diff_myers, diff_histogram, rows, dataset,
                   console, summary, figure, commitsLeft, file_path, file_type>>

\* for file in commit.modified_files: the list is exhausted
EndOfFiles ==
    /\ pc = "file_loop"
    /\ file_idx > commit.nfiles
    /\ commit_idx' = commit_idx + 1
    /\ pc' = "commit_loop"
    /\ file_idx' = 1
    /\ file' = NoFile
    /\ diff_myers' = None
    /\ diff_histogram' = None
    /\ UNCHANGED <<error, rows, repo_idx, ncommits, commit, dataset, console, summary,
                   figure, commitsLeft, filesLeft, file_path, file_type>>

\* for file in commit.modified_files: the body of the loop for the next
\* file of the list; fs are the files the commit may list, tms and ths what
\* the two diff subprocesses may do
ProcessFile(fs, tms, ths) ==
    /\ pc = "file_loop"
    /\ file_idx <= commit.nfiles
    /\ \E f \in fs, tm \in tms, th \in ths :
         LET parent == FirstParent(commit.parents)
             path   == EffectivePath(f)
             m      == get_diff(parent, path, tm)
             h      == get_diff(parent, path, th)
         IN IF ~Truthy(path)
            THEN /\ file' = f
                 /\ file_idx' = file_idx + 1
                 /\ UNCHANGED <<pc, error, repo_idx, ncommits, commit_idx, commit,
                                diff_myers, diff_histogram, rows, commitsLeft, filesLeft>>
            ELSE IF m.raised THEN Crash(m.value)
            ELSE IF h.raised THEN Crash(h.value)
            ELSE /\ file' = f
                 /\ diff_myers' = m.value
                 /\ diff_histogram' = h.value
                 /\ file_idx' = file_idx + 1
                 /\ rows' = IF KeepRecord(m.value, h.value)
                            THEN Append(rows, Record(repositories[repo_idx], f, commit,
                                                     parent, path, m.value, h.value))
                            ELSE rows
                 /\ UNCHANGED <<pc, error, repo_idx, ncommits, commit_idx, commit,
                                commitsLeft, filesLeft>>
    /\ UNCHANGED <<dataset, console, summary, figure, file_path, file_type>>

-----------------------------------------------------------------------------
(* dataset.csv: DataFrame.to_csv and pandas.read_csv *)

ColumnNames == <<"repository", "old_file_path", "new_file_path", "commit_sha",
                 "parent_commit_sha", "commit_message", "file_type", "file_extension",
                 "diff_myers", "diff_histogram", "discrepancy">>

NoDataset == [exists |-> FALSE, columns |-> <<>>, lines |-> <<>>]

\* a field as to_csv writes it: None becomes the empty field
CsvSeq(v) == IF v = NonePath THEN <<>> ELSE v
CsvStr(v) == IF v = None THEN "" ELSE v

\* a field as read_csv reads it: the empty field becomes NaN
ParseSeq(v) == IF v = <<>> THEN NaNSeq ELSE v
ParseStr(v) == IF v = "" THEN NaN ELSE v

\* pd.DataFrame(rows).to_csv("dataset.csv", index=False): a DataFrame built
\* from an empty list has no columns, and the file gets no header
to_csv(df) ==
    [ exists  |-> TRUE,
      columns |-> IF df = <<>> THEN <<>> ELSE ColumnNames,
      lines   |-> [i \in 1..Len(df) |->
                    [ repository        |-> CsvStr(df[i].repository),
                      old_file_path     |-> CsvSeq(df[i].old_file_path),
                      new_file_path     |-> CsvSeq(df[i].new_file_path),
                      commit_sha        |-> df[i].commit_sha,
                      parent_commit_sha |-> df[i].parent_commit_sha,
                      commit_message    |-> CsvSeq(df[i].commit_message),
                      file_type         |-> CsvStr(df[i].file_type),
                      file_extension    |-> CsvSeq(df[i].file_extension),
                      diff_myers        |-> CsvStr(df[i].diff_myers),
                      diff_histogram    |-> CsvStr(df[i].diff_histogram),
                      discrepancy       |-> CsvStr(df[i].discrepancy) ]] ]

\* pd.read_csv('dataset.csv')
read_csv(f) ==
    IF ~f.exists THEN Raised("FileNotFoundError")
    ELSE IF f.columns = <<>> THEN Raised("EmptyDataError")
    ELSE Returned([i \in 1..Len(f.lines) |->
                    [ repository        |-> ParseStr(f.lines[i].repository),
                      old_file_path     |-> ParseSeq(f.lines[i].old_file_path),
                      new_file_path     |-> ParseSeq(f.lines[i].new_file_path),
                      commit_sha        |-> f.lines[i].commit_sha,
                      parent_commit_sha |-> f.lines[i].parent_commit_sha,
                      commit_message    |-> ParseSeq(f.lines[i].commit_message),
                      file_type         |-> ParseStr(f.lines[i].file_type),
                      file_extension    |-> ParseSeq(f.lines[i].file_extension),
                      diff_myers        |-> ParseStr(f.lines[i].diff_myers),
                      diff_histogram    |-> ParseStr(f.lines[i].diff_histogram),
                      discrepancy       |-> ParseStr(f.lines[i].discrepancy) ]])

-----------------------------------------------------------------------------
(* Counting and rates *)

\* len(df[df[col] == val]) for the three columns the reports select on
CountDisc(df, val) == Cardinality({i \in 1..Len(df) : df[i].discrepancy = val})
CountRepo(df, repo) == Cardinality({i \in 1..Len(df) : df[i].repository = repo})
CountRepoDisc(df, repo, val) ==
    Cardinality({i \in 1..Len(df) : df[i].repository = repo /\ df[i].discrepancy = val})
CountType(df, ft) == Cardinality({i \in 1..Len(df) : df[i].file_type = ft})
CountTypeDisc(df, ft, val) ==
    Cardinality({i \in 1..Len(df) : df[i].file_type = ft /\ df[i].discrepancy = val})

\* the variant that keeps only the file types with enough records to be charted
TypesCharted(df) ==
    { t \in {df[i].file_type : i \in 1..Len(df)} :
        Cardinality({i \in 1..Len(df) : df[i].file_type = t}) >= MinSample }

\* df[col].unique(), the keys of df.groupby(col): NaN is no group key
Repos(df) == {df[i].repository : i \in 1..Len(df)} \ {NaN}
Types(df) == {df[i].file_type : i \in 1..Len(df)} \ {NaN}

\* a percentage, as the exact fraction <<numerator, denominator>>
Zero == <<0, 1>>

\* part / whole * 100 on Python numbers: division by zero raises
Percent(part, whole) ==
    IF whole = 0 THEN Raised("ZeroDivisionError") ELSE Returned(<<part * 100, whole>>)

\* (part / whole * 100) if whole > 0 else 0
PercentOrZero(part, whole) == IF whole > 0 THEN Percent(part, whole).value ELSE Zero

-----------------------------------------------------------------------------
(* main(): saving the dataset and the console summary *)

NoConsole == [printed |-> FALSE]

\* df = pd.DataFrame(rows); df.to_csv("dataset.csv", index=False)
SaveDataset ==
    /\ pc = "save"
    /\ dataset' = to_csv(rows)
    /\ pc' = "summary"
    /\ UNCHANGED <<error, repo_idx, ncommits, commit_idx, commit, file_idx, file,
                   diff_myers, diff_histogram, rows, console, summary, figure,
                   commitsLeft, filesLeft, file_path, file_type>>

\* the summary main() prints: with no rows the DataFrame has no
\* 'discrepancy' column and selecting on it raises KeyError
ConsoleSummary(df) ==
    IF df = <<>> THEN Raised("KeyError")
    ELSE LET agreement == Percent(CountDisc(df, "No"), Len(df))
         IN IF agreement.raised THEN agreement
            ELSE Returned(
              [ printed        |-> TRUE,
                total          |-> Len(df),
                disagreements  |-> CountDisc(df, "Yes"),
                agreement_rate |-> agreement.value,
                breakdown      |->
                  [name \in {repositories[i] : i \in 1..Len(repositories)}
                             \cap {df[i].repository : i \in 1..Len(df)} |->
                     [ disagreements |-> CountRepoDisc(df, name, "Yes"),
                       total         |-> CountRepo(df, name),
                       rate          |-> Percent(CountRepoDisc(df, name, "Yes"),
                                                 CountRepo(df, name)).value ]] ])

PrintSummary ==
    /\ pc = "summary"
    /\ LET out == ConsoleSummary(rows)
       IN IF out.raised
          THEN /\ Crash(out.value)
               /\ UNCHANGED console
          ELSE /\ pc' = "done"
               /\ console' = out.value
               /\ UNCHANGED <<error, repo_idx, ncommits, commit_idx, commit, file_idx,
                              file, diff_myers, diff_histogram, rows, commitsLeft,
                              filesLeft>>
    /\ UNCHANGED <<dataset, summary, figure, file_path, file_type>>

-----------------------------------------------------------------------------
(* summary.py: display_summary *)

\* the run of display_summary on the file f; status is "message" when it
\* printed its error and returned, "ok" when it printed the report, and the
\* name of the exception when one escaped
display_summary(f) ==
    LET read == read_csv(f)
        df   == read.value
        total_files == Len(df)
        total_discrepancies == CountDisc(df, "Yes")
        discrepancy_rate == Percent(total_discrepancies, total_files)
    IN IF read.raised /\ read.value = "FileNotFoundError" THEN [status |-> "message"]
       ELSE IF read.raised THEN [status |-> read.value]
       ELSE IF discrepancy_rate.raised THEN [status |-> discrepancy_rate.value]
       ELSE [ status              |-> "ok",
              total_files         |-> total_files,
              total_discrepancies |-> total_discrepancies,
              discrepancy_rate    |-> discrepancy_rate.value,
              repo_stats          |->
                [repo \in Repos(df) |->
                  [ discrepancies |-> CountRepoDisc(df, repo, "Yes"),
                    total_files   |-> CountRepo(df, repo),
                    rate          |-> <<CountRepoDisc(df, repo, "Yes") * 100,
                                        CountRepo(df, repo)>> ]],
              file_types          |->
                [ft \in Types(df) |->
                  [ discrepancies |-> CountTypeDisc(df, ft, "Yes"),
                    total         |-> CountType(df, ft),
                    rate          |-> PercentOrZero(CountTypeDisc(df, ft, "Yes"),
                                                    CountType(df, ft)) ]] ]

DisplaySummary ==
    /\ pc \in {"idle", "done", "crashed"}
    /\ summary' = display_summary(dataset)
    /\ UNCHANGED <<pc, error, repo_idx, ncommits, commit_idx, commit, file_idx, file,
                   diff_myers, diff_histogram, rows, dataset, console, figure,
                   commitsLeft, filesLeft, file_path, file_type>>

-----------------------------------------------------------------------------
(* visualization.py: create_final_clear_visualization *)

\* the run of create_final_clear_visualization on the file f: nothing
\* catches what read_csv raises, and sorting the empty frame of charted
\* file types by 'rate' raises KeyError
create_final_clear_visualization(f) ==
    LET read == read_csv(f)
        df   == read.value
        agreement_count    == CountDisc(df, "No")
        disagreement_count == CountDisc(df, "Yes")
        total              == agreement_count + disagreement_count
        repo_data ==
          [repo \in Repos(df) |->
            [ total         |-> CountRepo(df, repo),
              disagreements |-> CountRepoDisc(df, repo, "Yes"),
              rate          |-> PercentOrZero(CountRepoDisc(df, repo, "Yes"),
                                              CountRepo(df, repo)) ]]
        file_type_totals == [ft \in Types(df) |-> CountType(df, ft)]
        file_type_stats ==
          [ft \in {t \in Types(df) : CountType(df, t) >= MinSample} |->
            [ total         |-> CountType(df, ft),
              disagreements |-> CountTypeDisc(df, ft, "Yes"),
              rate          |-> PercentOrZero(CountTypeDisc(df, ft, "Yes"),
                                              CountType(df, ft)) ]]
        total_files         == Len(df)
        total_disagreements == CountDisc(df, "Yes")
        plots ==
          [ agreement_pct    |-> PercentOrZero(agreement_count, total),
            disagreement_pct |-> PercentOrZero(disagreement_count, total),
            repo_data        |-> repo_data,
            file_type_totals |-> file_type_totals,
            file_type_stats  |-> file_type_stats ]
    IN IF read.raised THEN [status |-> read.value]
       ELSE IF DOMAIN file_type_stats = {} THEN [status |-> "KeyError", plots |-> plots]
       ELSE [ status |-> "ok",
              plots  |-> plots,
              total_files               |-> total_files,
              total_disagreements       |-> total_disagreements,
              overall_agreement_rate    |->
                PercentOrZero(total_files - total_disagreements, total_files),
              overall_disagreement_rate |->
                PercentOrZero(total_disagreements, total_files) ]

CreateVisualization ==
    /\ pc \in {"idle", "done", "crashed"}
    /\ figure' = create_final_clear_visualization(dataset)
    /\ UNCHANGED <<pc, error, repo_idx, ncommits, commit_idx, commit, file_idx, file,
                   diff_myers, diff_histogram, rows, dataset, console, summary,
                   commitsLeft, filesLeft, file_path, file_type>>

-----------------------------------------------------------------------------
(* The pipeline on short histories *)

Init ==
    /\ pc = "idle"
    /\ error = "none"
    /\ repo_idx = 1
    /\ ncommits = 0
    /\ commit_idx = 1
    /\ commit = NoCommit
    /\ file_idx = 1
    /\ file = NoFile
    /\ diff_myers = None
    /\ diff_histogram = None
    /\ rows = <<>>
    /\ dataset = NoDataset
    /\ console = NoConsole
    /\ summary = NotRun
    /\ figure = NotRun
    /\ commitsLeft = MaxCommits
    /\ filesLeft = MaxFiles
    /\ file_path = NonePath
    /\ file_type = "unset"

Next ==
    \/ StartMain
    \/ NextRepo(BOOLEAN, HistoryLens)
    \/ NextCommit(Commits)
    \/ ProcessFile(ModifiedFiles, MyersOutcomes, HistogramOutcomes)
    \/ EndOfFiles
    \/ SaveDataset
    \/ PrintSummary
    \/ DisplaySummary
    \/ CreateVisualization

Spec == Init /\ [][Next]_vars

-----------------------------------------------------------------------------
(* The pipeline on a history longer than the commit cap.  What the source   *)
(* yields is fixed by the position: every seventh commit is a root commit,  *)
(* every sixth has two modified files, and the diffs fail or disagree at    *)
(* fixed positions.                                                         *)

LongHistory == CommitCap + CapExcess

\* one repository may have the long history, the others have one commit
CapLens == { n \in {1, LongHistory} : n <= commitsLeft - (Len(repositories) - repo_idx) }

CapCommits ==
    { [ hash    |-> HashOf(repo_idx, commit_idx),
        parents |-> IF commit_idx % 7 = 3 THEN <<>>
                    ELSE <<HashOf(repo_idx, commit_idx - 1)>>,
        msg     |-> IF commit_idx % 9 = 1 THEN Msg(MsgLimit + 1) ELSE <<"f", "i", "x">>,
        nfiles  |-> IF commit_idx % 6 = 1 THEN 2 ELSE 1 ] }

P_m_py == <<"m", ".", "p", "y">>
P_r_md == <<"r", ".", "m", "d">>

CapFiles ==
    IF file_idx = 1
    THEN { [old_path |-> NonePath, new_path |-> P_m_py] }
    ELSE { [old_path |-> P_r_md, new_path |-> NonePath] }

CapMyers ==
    IF commit_idx % 11 = 2 THEN {ToolNonZero} ELSE {ToolOk("+added line")}

CapHistogram ==
    IF commit_idx % 4 = 1 THEN {ToolOk("")} ELSE {ToolOk("+added line")}

InitCap ==
    /\ pc = "idle"
    /\ error = "none"
    /\ repo_idx = 1
    /\ ncommits = 0
    /\ commit_idx = 1
    /\ commit = NoCommit
    /\ file_idx = 1
    /\ file = NoFile
    /\ diff_myers = None
    /\ diff_histogram = None
    /\ rows = <<>>
    /\ dataset = NoDataset
    /\ console = NoConsole
    /\ summary = NotRun
    /\ figure = NotRun
    /\ commitsLeft = LongHistory + Len(repositories) - 1
    /\ filesLeft = 2 * (LongHistory + Len(repositories))
    /\ file_path = NonePath
    /\ file_type = "unset"

NextCap ==
    \/ StartMain
    \/ NextRepo({TRUE}, CapLens)
    \/ NextCommit(CapCommits)
    \/ ProcessFile(CapFiles, CapMyers, CapHistogram)
    \/ EndOfFiles
    \/ SaveDataset
    \/ PrintSummary
    \/ DisplaySummary
    \/ CreateVisualization

SpecCap == InitCap /\ [][NextCap]_vars

-----------------------------------------------------------------------------
(* classify_file_type on its own *)

DirNames == { <<"a">>, <<"t","e","s","t","s">>, <<"x",".","y">>, <<".","d">> }

RECURSIVE Prefixes(_)
Prefixes(k) ==
    IF k = 0 THEN { <<>> }
    ELSE Prefixes(k - 1) \cup { p \o d \o <<"/">> : p \in Prefixes(k - 1), d \in DirNames }

Stems == { <<>>, <<"a">>, <<"t","e","s","t","_","f","o","o">>, <<".">>, <<"M","y">>,
           <<"a",".","b">>, <<".","a">>, <<"T","e","s","t">> }

Suffixes == { <<>>, <<".","p","y">>, <<".","P","Y">>, <<".","p","y","c">>, <<".","c">>,
              <<".","m","d">>, <<".","M","d">>, <<".","t","x","t">>,
              <<".","y","m","l">>, <<".","t","o","m","l">>,
              <<".","h","t","m","l">>, <<".","c","s","s">>,
              <<".","b","i","n">>, <<".">>, <<".","t","e","s","t">>,
              <<"t","e","s","t",".","p","y">>, <<"_","t","e","s","t",".","p","y">>,
              <<"_","t","e","s","t",".","b","i","n">> }

ClassifyPaths ==
    {NonePath} \cup { p \o st \o e : p \in Prefixes(MaxDepth), st \in Stems, e \in Suffixes }

InitClassify ==
    /\ pc = "idle"
    /\ error = "none"
    /\ repo_idx = 1
    /\ ncommits = 0
    /\ commit_idx = 1
    /\ commit = NoCommit
    /\ file_idx = 1
    /\ file = NoFile
    /\ diff_myers = None
    /\ diff_histogram = None
    /\ rows = <<>>
    /\ dataset = NoDataset
    /\ console = NoConsole
    /\ summary = NotRun
    /\ figure = NotRun
    /\ commitsLeft = 0
    /\ filesLeft = 0
    /\ file_path \in ClassifyPaths
    /\ file_type = "unset"

\* file_type = classify_file_type(file_path)
Classify ==
    /\ file_type = "unset"
    /\ file_type' = classify_file_type(file_path)
    /\ UNCHANGED <<pc, error, repo_idx, ncommits, commit_idx, commit, file_idx, file,
                   diff_myers, diff_histogram, rows, dataset, console, summary, figure,
                   commitsLeft, filesLeft, file_path>>

NextClassify == Classify

SpecClassify == InitClassify /\ [][NextClassify]_vars

-----------------------------------------------------------------------------
(* Properties *)

Labels == {"Source", "Documentation", "Config", "Web", "Test", "Other", "Unknown"}

\* the lower-cased extension of a path
ExtOf(p) == lower(splitext(p)[2])

\* the "..." main() puts after a cut message
Marker == <<".", ".", ".">>

\* a percentage <<numerator, denominator>> lies in [0, 100]
InRange(r) == r[2] > 0 /\ 0 <= r[1] /\ r[1] <= 100 * r[2]

\* the sum of the numbers f[x], x in S
RECURSIVE SumSet(_, _)
SumSet(f, S) ==
    IF S = {} THEN 0
    ELSE LET x == CHOOSE y \in S : TRUE IN f[x] + SumSet(f, S \ {x})

\* the sum of a column of a table of groups
SumTotal(t)         == SumSet([x \in DOMAIN t |-> t[x].total], DOMAIN t)
SumTotalFiles(t)    == SumSet([x \in DOMAIN t |-> t[x].total_files], DOMAIN t)
SumDisagreements(t) == SumSet([x \in DOMAIN t |-> t[x].disagreements], DOMAIN t)
SumDiscrepancies(t) == SumSet([x \in DOMAIN t |-> t[x].discrepancies], DOMAIN t)

\* a step of main() appends a record
Appends == Len(rows') = Len(rows) + 1

\* the record a step appends
Appended == rows'[Len(rows')]

\* the position of a repository name in the configured list
RepoIndex(name) == CHOOSE i \in 1..Len(repositories) : repositories[i] = name

\* C1: in every record main() has appended, discrepancy is "Yes" exactly when
\* diff_myers differs from diff_histogram as a text, and "No" otherwise; it
\* takes no other value.
C1_DiscrepancyConsistency ==
    \A i \in 1..Len(rows) :
        /\ rows[i].discrepancy \in {"Yes", "No"}
        /\ rows[i].discrepancy = "Yes" <=> rows[i].diff_myers # rows[i].diff_histogram

\* C1 witness: the dataset holds a record of each kind, one of them with an
\* empty histogram diff.
C1_Witness ==
    /\ \E i \in 1..Len(rows) : rows[i].discrepancy = "Yes" /\ rows[i].diff_histogram = ""
    /\ \E i \in 1..Len(rows) : rows[i].discrepancy = "No"

\* C2: a step of main() appends a record only for a file that has an old or
\* a new path, of a commit that has a parent, and for which get_diff returned
\* a text (not None) for myers and for histogram.
C2_SkipCorrectness ==
    [][Appends =>
         /\ file'.old_path # NonePath \/ file'.new_path # NonePath
         /\ commit'.parents # <<>>
         /\ diff_myers' # None
         /\ diff_histogram' # None]_vars

\* C2 witness: the second file of a commit is reached after its first file,
\* whose histogram diff was None while its myers diff was a text, left no
\* record.
C2_Witness ==
    /\ pc = "file_loop"
    /\ file_idx = 2
    /\ Truthy(file.old_path)
    /\ diff_myers # None
    /\ diff_histogram = None
    /\ rows = <<>>

\* C3: no failure of a diff invocation ends main(): whether the tool exits
\* non-zero or cannot be run, get_diff returns None and the traversal goes on.
C3_InvocationFailureRecovered ==
    ~(pc = "crashed" /\ error \in {"OSError", "CalledProcessError"})

\* C4: every rate the program computes lies in [0, 100], and with a file
\* count of 0 the computation yields 0 and raises no error.
C4_RatesBoundedAndTotal ==
    /\ ~(pc = "crashed" /\ error \in {"KeyError", "ZeroDivisionError"})
    /\ summary.status # "ZeroDivisionError"
    /\ console.printed =>
         /\ InRange(console.agreement_rate)
         /\ \A name \in DOMAIN console.breakdown : InRange(console.breakdown[name].rate)
    /\ summary.status = "ok" =>
         /\ InRange(summary.discrepancy_rate)
         /\ \A repo \in DOMAIN summary.repo_stats : InRange(summary.repo_stats[repo].rate)
         /\ \A ft \in DOMAIN summary.file_types : InRange(summary.file_types[ft].rate)
    /\ figure.status \in {"ok", "KeyError"} =>
         /\ InRange(figure.plots.agreement_pct)
         /\ InRange(figure.plots.disagreement_pct)
         /\ \A repo \in DOMAIN figure.plots.repo_data :
              InRange(figure.plots.repo_data[repo].rate)

\* C5: with dataset.csv absent or empty, display_summary and
\* create_final_clear_visualization stop with a message: neither ends with an
\* unhandled error.
C5_ReportsStopWithMessage ==
    (~dataset.exists \/ dataset.columns = <<>>) =>
        /\ summary.status \in {"not_run", "message"}
        /\ figure.status \in {"not_run", "message"}

\* C6: classify_file_type returns one label of the fixed set for every path;
\* None and the empty path give Unknown; a non-empty path whose lower-cased
\* extension is a source, documentation, config or web extension gives
\* Source, Documentation, Config or Web, whatever the rest of the path is.
C6_ClassifyTotal ==
    file_type # "unset" =>
        /\ file_type \in Labels
        /\ ~Truthy(file_path) => file_type = "Unknown"
        /\ Truthy(file_path) /\ ExtOf(file_path) \in SourceExts => file_type = "Source"
        /\ Truthy(file_path) /\ ExtOf(file_path) \in DocExts => file_type = "Documentation"
        /\ Truthy(file_path) /\ ExtOf(file_path) \in ConfigExts => file_type = "Config"
        /\ Truthy(file_path) /\ ExtOf(file_path) \in WebExts => file_type = "Web"

\* C6 witness: a path under a tests/ directory, with an upper-case source
\* extension, was classified as Source.
C6_Witness ==
    /\ file_type = "Source"
    /\ Contains(file_path, TestWord)
    /\ splitext(file_path)[2] = <<".", "P", "Y">>

\* C9 as stated: no path is ever classified as Test, and test_foo.py is
\* classified as Source.
C9_TestUnreachable ==
    /\ file_type # "Test"
    /\ file_path = P_test_foo /\ file_type # "unset" => file_type = "Source"

\* C9 amended: a path is classified as Test exactly when it is non-empty,
\* contains "test", and its lower-cased extension is in none of the source,
\* documentation, config and web sets; test_foo.py is classified as Source.
C9_TestOnlyForOtherExtensions ==
    file_type # "unset" =>
        /\ file_type = "Test" <=>
             /\ Truthy(file_path)
             /\ Contains(file_path, TestWord)
             /\ ExtOf(file_path) \notin (SourceExts \cup DocExts \cup ConfigExts \cup WebExts)
        /\ file_path = P_test_foo => file_type = "Source"

\* C9 witness: a path was classified as Test.
C9_Witness ==
    /\ file_type = "Test"
    /\ ExtOf(file_path) = <<".", "b", "i", "n">>

\* C7 as stated: the commit_message of an appended record is the first 100
\* characters of the commit's message followed by the marker when the
\* message is longer than 100 characters, the message itself otherwise, and
\* is at most 100 characters long.
C7_MessageAtMostLimit ==
    [][Appends =>
         /\ Len(commit.msg) > MsgLimit =>
              Appended.commit_message = SubSeq(commit.msg, 1, MsgLimit) \o Marker
         /\ Len(commit.msg) <= MsgLimit => Appended.commit_message = commit.msg
         /\ Len(Appended.commit_message) <= MsgLimit]_vars

\* C7 amended: the commit_message of an appended record is the first 100
\* characters of the commit's message followed by the marker "..." when the
\* message is longer than 100 characters, the message itself otherwise, and
\* is at most 103 characters long (100 characters and the marker).
C7_MessageTruncated ==
    [][Appends =>
         /\ Len(commit.msg) > MsgLimit =>
              Appended.commit_message = SubSeq(commit.msg, 1, MsgLimit) \o Marker
         /\ Len(commit.msg) <= MsgLimit => Appended.commit_message = commit.msg
         /\ Len(Appended.commit_message) <= MsgLimit + Len(Marker)]_vars

\* C7 witness: the dataset holds a record whose message was cut and one whose
\* message was stored as it was.
C7_Witness ==
    /\ \E i \in 1..Len(rows) : Len(rows[i].commit_message) = MsgLimit + Len(Marker)
    /\ \E i \in 1..Len(rows) : rows[i].commit_message = Msg(MsgLimit)

InOrder(r1, r2) ==
    \/ RepoIndex(r1.repository) < RepoIndex(r2.repository)
    \/ /\ r1.repository = r2.repository
       /\ r1.commit_sha[2] <= r2.commit_sha[2]

\* C10: every step of main() leaves the record list as it was or adds one
\* record at its end, the record of the file, commit and repository the
\* traversal is at; the traversal only moves forward; the records are in the
\* order of the repositories and, within one, of the commits; and no record
\* is of a commit after the first 1000 of its repository.
C10_AppendOnlyInTraversalOrder ==
    [][pc' # "crashed" =>
         /\ \/ rows' = rows
            \/ /\ Appends
               /\ SubSeq(rows', 1, Len(rows)) = rows
               /\ Appended.repository = repositories[repo_idx]
               /\ Appended.commit_sha = HashOf(repo_idx, commit_idx)
               /\ Appended.old_file_path = file'.old_path
               /\ Appended.new_file_path = file'.new_path
               /\ file_idx' = file_idx + 1
         /\ \/ repo_idx' > repo_idx
            \/ repo_idx' = repo_idx /\ commit_idx' > commit_idx
            \/ repo_idx' = repo_idx /\ commit_idx' = commit_idx /\ file_idx' >= file_idx
         /\ \A i \in 1..(Len(rows') - 1) : InOrder(rows'[i], rows'[i + 1])
         /\ \A i \in 1..Len(rows') : rows'[i].commit_sha[2] <= CommitCap]_vars

\* C10 witness: main() is done with a history longer than the cap; the
\* dataset holds records of two repositories, among them two records of one
\* commit and a record of the 1000th commit.
C10_Witness ==
    /\ pc = "done"
    /\ \E i \in 1..Len(rows) : rows[i].commit_sha[2] = CommitCap
    /\ \E i \in 1..(Len(rows) - 1) : rows[i].commit_sha = rows[i + 1].commit_sha
    /\ rows[1].repository # rows[Len(rows)].repository

=============================================================================
